---- MODULE Spec2Model ----
(***************************************************************************)
(* Model of asaphus_coding_challenge.cpp: the Box class (weight, score,    *)
(* list of absorbed weights, type), Player::takeTurn and play().           *)
(*                                                                         *)
(* Real numbers are kept exact as scaled integers: a weight w is stored as *)
(* WeightScale * w (the initial weights have one decimal) and a score s as *)
(* ScoreScale * s (the mean divides by 1, 2 or 3, so mean^2 has a          *)
(* denominator dividing 36).  Token weights are non-negative integers.     *)
(***************************************************************************)
EXTENDS Integers, Sequences, FiniteSets, TLC

VARIABLES
    pc,                \* position of the running function
    boxes,             \* std::vector<std::unique_ptr<Box>>
    player_A,          \* player_A.score_
    player_B,          \* player_B.score_
    is_player_A_turn,  \* play()'s flag
    input_weights,     \* play()'s argument
    idx,               \* number of input weights the loop has consumed
    ub,                \* an insertion through an out-of-range iterator ran
    made,              \* history variable: factory and initial weight per box
    arrivals,          \* history variable: per box, what it absorbed, in order
    turns              \* history variable: the completed turns, in order

vars == <<pc, boxes, player_A, player_B, is_player_A_turn, input_weights,
          idx, ub, made, arrivals, turns>>

----------------------------------------------------------------------------
(* Representation of double values and bounds of the model.                *)

WeightScale == 10
ScoreScale == 36

MaxToken == 2        \* play: token weights are 0..MaxToken
MaxLen == 6          \* play: at most MaxLen input weights
MaxAbsorbWeight == 4 \* box harness: absorbed weights are 0..MaxAbsorbWeight
MaxAbsorbs == 5      \* box harness: at most MaxAbsorbs absorptions
MaxTurnToken == 1    \* takeTurn harness: token weights are 0..MaxTurnToken
MaxTurns == 3        \* takeTurn harness: at most MaxTurns turns

GREEN == "GREEN"
BLUE == "BLUE"
BoxType == {GREEN, BLUE}

InitialWeights == {0, 1, 2, 3}   \* 0.0, 0.1, 0.2, 0.3 scaled by WeightScale

Fib4 == <<1, 1, 2, 3>>
Fib8 == <<1, 1, 2, 3, 5, 8, 13, 21>>

----------------------------------------------------------------------------
(* Helpers on sequences.                                                   *)

RECURSIVE Accumulate(_, _, _)
\* std::accumulate over positions from..to of h
Accumulate(h, from, to) ==
    IF from > to THEN 0 ELSE h[from] + Accumulate(h, from + 1, to)

\* std::list::insert before the element that has p elements in front of it
InsertAt(h, p, w) == SubSeq(h, 1, p) \o <<w>> \o SubSeq(h, p + 1, Len(h))

----------------------------------------------------------------------------
(* class Box                                                               *)

\* Box::Box(initial_weight) with the default member initialisers
BoxScoreFromWeight(initial_weight) ==
    [weight_ |-> initial_weight, score_ |-> initial_weight,
     absorbed_weights_ |-> <<>>, type_ |-> GREEN]
Box(initial_weight) ==
    [weight_ |-> initial_weight, score_ |-> 0,
     absorbed_weights_ |-> <<>>, type_ |-> GREEN]

\* makeGreenBox and makeBlueBox both forward to the same constructor
makeGreenBox(initial_weight) == Box(initial_weight)
makeBlueBox(initial_weight) == Box(initial_weight)

getScore(b) == b.score_
getWeight(b) == b.weight_
getBoxType(b) == b.type_

\* Box::operator<
BoxLess(a, b) == a.weight_ < b.weight_

\* Box::setBoxType: weight_ > 0.1 makes the box BLUE (the message printed
\* when weight_ > 0.3 changes no state)
setBoxTypeFromPointOne(b) ==
    IF b.weight_ >= 1 THEN [b EXCEPT !.type_ = BLUE] ELSE b
setBoxType(b) ==
    IF b.weight_ > 1 THEN [b EXCEPT !.type_ = BLUE] ELSE b

\* the divisor of the green branch's mean: 3, or absorbed_weights_.size()
GreenDivisor(h) == IF Len(h) >= 3 THEN 3 ELSE Len(h)

\* green branch: mean of the last three, or of all when fewer than three,
\* squared; the result is ScoreScale * mean^2
GreenScoreAll(h) ==
    (ScoreScale * Accumulate(h, 1, Len(h)) * Accumulate(h, 1, Len(h)))
        \div (Len(h) * Len(h))
GreenScore(h) ==
    IF Len(h) >= 3
    THEN (ScoreScale * Accumulate(h, Len(h) - 2, Len(h))
                     * Accumulate(h, Len(h) - 2, Len(h)))
             \div (GreenDivisor(h) * GreenDivisor(h))
    ELSE (ScoreScale * Accumulate(h, 1, Len(h)) * Accumulate(h, 1, Len(h)))
             \div (GreenDivisor(h) * GreenDivisor(h))

\* blue branch: ((front + back) * (front + back + 1)) / 2 + back
BlueScoreSwapped(h) ==
    ScoreScale * ((((h[1] + h[Len(h)]) * (h[1] + h[Len(h)] + 1)) \div 2) + h[1])
BlueScore(h) ==
    ScoreScale * ((((h[1] + h[Len(h)]) * (h[1] + h[Len(h)] + 1)) \div 2)
                  + h[Len(h)])

\* the blue branch reaches std::advance(end(), -3)
MiddleInsert(h, w) == h # <<>> /\ ~(h[1] > w) /\ ~(h[Len(h)] < w)

\* std::advance(end(), -3) leaves the list when it holds fewer than 3 values
AbsorbUndefined(b, w) ==
    b.type_ = BLUE /\ MiddleInsert(b.absorbed_weights_, w)
                   /\ Len(b.absorbed_weights_) < 3

\* the positions the insertion can take: three before the end, or, when the
\* iterator left the list, any position of the list
InsertionPointsSorted(h, w) ==
    {p \in 0..Len(h) : (\A k \in 1..p : h[k] <= w)
                       /\ (\A k \in (p + 1)..Len(h) : h[k] >= w)}
InsertionPoints(h, w) ==
    IF Len(h) >= 3 THEN {Len(h) - 3} ELSE 0..Len(h)

\* the lists the blue branch can leave behind
BlueLists(h, w) ==
    IF h = <<>> THEN {Append(h, w)}
    ELSE IF h[1] > w THEN {<<w>> \o h}
    ELSE IF h[Len(h)] < w THEN {Append(h, w)}
    ELSE {InsertAt(h, p, w) : p \in InsertionPoints(h, w)}

\* this->weight_ += weight
AddWeightAssign(weight_, w) == WeightScale * w
AddWeight(weight_, w) == weight_ + WeightScale * w

\* Box::absorbWeight: the boxes the call can leave behind
absorbWeightNoPush(b, w) ==
    IF getBoxType(b) = GREEN
    THEN {[b EXCEPT !.score_ = IF b.absorbed_weights_ = <<>> THEN 0
                               ELSE GreenScore(b.absorbed_weights_),
                    !.weight_ = AddWeight(@, w)]}
    ELSE {[b EXCEPT !.absorbed_weights_ = h,
                    !.score_ = BlueScore(h),
                    !.weight_ = AddWeight(@, w)]
            : h \in BlueLists(b.absorbed_weights_, w)}
absorbWeight(b, w) ==
    IF getBoxType(b) = GREEN
    THEN {[b EXCEPT !.absorbed_weights_ = Append(@, w),
                    !.score_ = GreenScore(Append(b.absorbed_weights_, w)),
                    !.weight_ = AddWeight(@, w)]}
    ELSE {[b EXCEPT !.absorbed_weights_ = h,
                    !.score_ = BlueScore(h),
                    !.weight_ = AddWeight(@, w)]
            : h \in BlueLists(b.absorbed_weights_, w)}

----------------------------------------------------------------------------
(* class Player                                                            *)

RECURSIVE MinScan(_, _, _)
\* std::min_element's loop: keep the first element no later one is less than
MinScan(bxs, k, smallest) ==
    IF k > Len(bxs) THEN smallest
    ELSE IF BoxLess(bxs[k], bxs[smallest]) THEN MinScan(bxs, k + 1, k)
    ELSE MinScan(bxs, k + 1, smallest)

RECURSIVE MinScanLast(_, _, _)
MinScanLast(bxs, k, smallest) ==
    IF k > Len(bxs) THEN smallest
    ELSE IF ~BoxLess(bxs[smallest], bxs[k]) THEN MinScanLast(bxs, k + 1, k)
    ELSE MinScanLast(bxs, k + 1, smallest)

min_element_last(bxs) == MinScanLast(bxs, 2, 1)
min_element(bxs) == MinScan(bxs, 2, 1)

\* (*min_box)->absorbWeight(...) writes the box min_box points to
AbsorbedSharedWeight(bxs, min_box, nb) ==
    [i \in 1..Len(bxs) |->
        IF i = min_box THEN nb ELSE [bxs[i] EXCEPT !.weight_ = nb.weight_]]
Absorbed(bxs, min_box, nb) == [bxs EXCEPT ![min_box] = nb]

\* score_ += (*min_box)->getScore()
AddScoreAssign(score_, s) == s
AddScore(score_, s) == score_ + s

\* the step every turn shares: the minimum box absorbs, the acting player's
\* score grows by the box's new score
TakeTurn(player, input_weight) ==
    LET min_box == min_element(boxes) IN
    \E nb \in absorbWeight(boxes[min_box], input_weight) :
        /\ boxes' = Absorbed(boxes, min_box, nb)
        /\ IF player = "A"
           THEN player_A' = AddScore(player_A, getScore(nb))
                /\ UNCHANGED player_B
           ELSE player_B' = AddScore(player_B, getScore(nb))
                /\ UNCHANGED player_A
        /\ ub' = (ub \/ AbsorbUndefined(boxes[min_box], input_weight))
        /\ arrivals' = [arrivals EXCEPT ![min_box] =
               Append(@, [weight |-> input_weight,
                          type |-> boxes[min_box].type_])]
        /\ turns' = Append(turns, [player |-> player, token |-> input_weight,
                                   box |-> min_box, gain |-> getScore(nb)])

\* the turn ends inside std::advance / insert instead of returning
TakeTurnAborts(input_weight) ==
    AbsorbUndefined(boxes[min_element(boxes)], input_weight)

----------------------------------------------------------------------------
(* play()                                                                  *)

Inputs ==
    UNION {[1..n -> 0..MaxToken] : n \in 0..MaxLen} \cup {Fib4, Fib8}

\* the state after the four emplace_back calls and the player declarations
Init ==
    /\ input_weights \in Inputs
    /\ pc = "setBoxType"
    /\ boxes = <<makeGreenBox(0), makeGreenBox(1), makeBlueBox(2), makeBlueBox(3)>>
    /\ made = <<[kind |-> GREEN, initial_weight |-> 0],
                [kind |-> GREEN, initial_weight |-> 1],
                [kind |-> BLUE, initial_weight |-> 2],
                [kind |-> BLUE, initial_weight |-> 3]>>
    /\ player_A = 0
    /\ player_B = 0
    /\ is_player_A_turn = TRUE
    /\ idx = 0
    /\ ub = FALSE
    /\ arrivals = <<<<>>, <<>>, <<>>, <<>>>>
    /\ turns = <<>>

\* for (const auto& box : boxes) box->setBoxType();
PlaySetBoxTypes ==
    /\ pc = "setBoxType"
    /\ boxes' = [i \in 1..Len(boxes) |-> setBoxType(boxes[i])]
    /\ pc' = "loop"
    /\ UNCHANGED <<player_A, player_B, is_player_A_turn, input_weights, idx,
                   ub, made, arrivals, turns>>

\* is_player_A_turn = !is_player_A_turn
ToggleStuck(t) == t
Toggle(t) == ~t

\* one iteration of the range-for loop
PlayTurn ==
    /\ pc = "loop"
    /\ idx < Len(input_weights)
    /\ TakeTurn(IF is_player_A_turn THEN "A" ELSE "B", input_weights[idx + 1])
    /\ is_player_A_turn' = Toggle(is_player_A_turn)
    /\ idx' = idx + 1
    /\ UNCHANGED <<pc, input_weights, made>>

\* the iteration's insertion leaves the list and the process ends abnormally
PlayTurnAborts ==
    /\ pc = "loop"
    /\ idx < Len(input_weights)
    /\ TakeTurnAborts(input_weights[idx + 1])
    /\ pc' = "aborted"
    /\ ub' = TRUE
    /\ UNCHANGED <<boxes, player_A, player_B, is_player_A_turn, input_weights,
                   idx, made, arrivals, turns>>

\* return std::make_pair(player_A.getScore(), player_B.getScore())
PlayReturn ==
    /\ pc = "loop"
    /\ idx = Len(input_weights)
    /\ pc' = "done"
    /\ UNCHANGED <<boxes, player_A, player_B, is_player_A_turn, input_weights,
                   idx, ub, made, arrivals, turns>>

Next == PlaySetBoxTypes \/ PlayTurn \/ PlayTurnAborts \/ PlayReturn

Spec == Init /\ [][Next]_vars

----------------------------------------------------------------------------
(* A single box driven through its public interface, as the box test cases *)
(* do: a factory call, then absorbWeight and setBoxType in any order.      *)

InitBox ==
    /\ \E w \in InitialWeights, kind \in BoxType :
          /\ boxes = <<IF kind = GREEN THEN makeGreenBox(w) ELSE makeBlueBox(w)>>
          /\ made = <<[kind |-> kind, initial_weight |-> w]>>
    /\ pc = "box"
    /\ input_weights = <<>>
    /\ player_A = 0
    /\ player_B = 0
    /\ is_player_A_turn = TRUE
    /\ idx = 0
    /\ ub = FALSE
    /\ arrivals = <<<<>>>>
    /\ turns = <<>>

\* box->absorbWeight(w) returns
BoxAbsorbWeight ==
    /\ pc = "box"
    /\ idx < MaxAbsorbs
    /\ \E w \in 0..MaxAbsorbWeight :
         \E nb \in absorbWeight(boxes[1], w) :
            /\ boxes' = <<nb>>
            /\ ub' = (ub \/ AbsorbUndefined(boxes[1], w))
            /\ arrivals' = <<Append(arrivals[1],
                                [weight |-> w, type |-> boxes[1].type_])>>
    /\ idx' = idx + 1
    /\ UNCHANGED <<pc, player_A, player_B, is_player_A_turn, input_weights,
                   made, turns>>

\* box->absorbWeight(w) ends abnormally inside the out-of-range insertion
BoxAbsorbAborts ==
    /\ pc = "box"
    /\ idx < MaxAbsorbs
    /\ \E w \in 0..MaxAbsorbWeight : AbsorbUndefined(boxes[1], w)
    /\ pc' = "aborted"
    /\ ub' = TRUE
    /\ UNCHANGED <<boxes, player_A, player_B, is_player_A_turn, input_weights,
                   idx, made, arrivals, turns>>

\* box->setBoxType()
BoxSetBoxType ==
    /\ pc = "box"
    /\ boxes' = <<setBoxType(boxes[1])>>
    /\ UNCHANGED <<pc, player_A, player_B, is_player_A_turn, input_weights,
                   idx, ub, made, arrivals, turns>>

NextBox == BoxAbsorbWeight \/ BoxAbsorbAborts \/ BoxSetBoxType

SpecBox == InitBox /\ [][NextBox]_vars

----------------------------------------------------------------------------
(* Player::takeTurn called on any four boxes: each is made with one of the *)
(* initial weights (makeGreenBox below 0.2, makeBlueBox from 0.2 on, as in *)
(* the setBoxType test case) and has had setBoxType called.                *)

InitTurn ==
    /\ \E ws \in [1..4 -> InitialWeights] :
          /\ boxes = [i \in 1..4 |->
                 setBoxType(IF ws[i] < 2 THEN makeGreenBox(ws[i])
                                         ELSE makeBlueBox(ws[i]))]
          /\ made = [i \in 1..4 |->
                 [kind |-> IF ws[i] < 2 THEN GREEN ELSE BLUE,
                  initial_weight |-> ws[i]]]
    /\ pc = "turn"
    /\ input_weights = <<>>
    /\ player_A = 0
    /\ player_B = 0
    /\ is_player_A_turn = TRUE
    /\ idx = 0
    /\ ub = FALSE
    /\ arrivals = <<<<>>, <<>>, <<>>, <<>>>>
    /\ turns = <<>>

\* player_A.takeTurn(w, boxes) returns
TurnA ==
    /\ pc = "turn"
    /\ idx < MaxTurns
    /\ \E w \in 0..MaxTurnToken : TakeTurn("A", w)
    /\ idx' = idx + 1
    /\ UNCHANGED <<pc, is_player_A_turn, input_weights, made>>

\* player_B.takeTurn(w, boxes) returns
TurnB ==
    /\ pc = "turn"
    /\ idx < MaxTurns
    /\ \E w \in 0..MaxTurnToken : TakeTurn("B", w)
    /\ idx' = idx + 1
    /\ UNCHANGED <<pc, is_player_A_turn, input_weights, made>>

\* takeTurn ends abnormally inside the out-of-range insertion
TurnAborts ==
    /\ pc = "turn"
    /\ idx < MaxTurns
    /\ \E w \in 0..MaxTurnToken : TakeTurnAborts(w)
    /\ pc' = "aborted"
    /\ ub' = TRUE
    /\ UNCHANGED <<boxes, player_A, player_B, is_player_A_turn, input_weights,
                   idx, made, arrivals, turns>>

NextTurn == TurnA \/ TurnB \/ TurnAborts

SpecTurn == InitTurn /\ [][NextTurn]_vars

----------------------------------------------------------------------------
(* Vocabulary of the properties.                                           *)

RECURSIVE Sum(_)
Sum(s) == IF s = <<>> THEN 0 ELSE Head(s) + Sum(Tail(s))

\* the values box i absorbed, in arrival order
Values(i) == [k \in 1..Len(arrivals[i]) |-> arrivals[i][k].weight]

SeqMin(s) == CHOOSE x \in {s[k] : k \in 1..Len(s)} :
                 \A k \in 1..Len(s) : x <= s[k]
SeqMax(s) == CHOOSE x \in {s[k] : k \in 1..Len(s)} :
                 \A k \in 1..Len(s) : x >= s[k]

\* Cantor's pairing function
Pairing(a, b) == (((a + b) * (a + b + 1)) \div 2) + b

\* box i was BLUE at every one of its absorptions
AlwaysBlue(i) == \A k \in 1..Len(arrivals[i]) : arrivals[i][k].type = BLUE

\* box i absorbs in this step
Absorbing(i) == Len(arrivals'[i]) = Len(arrivals[i]) + 1

Front(i) == boxes[i].absorbed_weights_[1]
Back(i) == boxes[i].absorbed_weights_[Len(boxes[i].absorbed_weights_)]

----------------------------------------------------------------------------
\* C1: a box that was BLUE at each of its absorptions, none of them through
\* an out-of-range insertion, has the minimum of the absorbed values at the
\* front of its list, the maximum at the back, and score
\* pairing(minimum, maximum).
C1_BlueFrontMinBackMax ==
    \A i \in DOMAIN boxes :
        (boxes[i].type_ = BLUE /\ arrivals[i] # <<>> /\ AlwaysBlue(i) /\ ~ub)
        => /\ Front(i) = SeqMin(Values(i))
           /\ Back(i) = SeqMax(Values(i))
           /\ boxes[i].score_
                = ScoreScale * Pairing(SeqMin(Values(i)), SeqMax(Values(i)))

\* C2: the score of a GREEN box that has absorbed k >= 1 values is the square
\* of the mean of the last min(3, k) of them; from weight 0.0 the values
\* 1, 2, 3, 4 give 1, 2.25, 4, 9.
C2_GreenMeanSquare ==
    \A i \in DOMAIN boxes :
        (boxes[i].type_ = GREEN /\ arrivals[i] # <<>>)
        => LET v == Values(i)
               k == Len(v)
               n == IF k < 3 THEN k ELSE 3
               S == Sum(SubSeq(v, k - n + 1, k))
           IN /\ boxes[i].score_ * n * n = ScoreScale * S * S
              /\ (made[i].initial_weight = 0 /\ v = <<1>>)
                     => 4 * boxes[i].score_ = ScoreScale * 4
              /\ (made[i].initial_weight = 0 /\ v = <<1, 2>>)
                     => 4 * boxes[i].score_ = ScoreScale * 9
              /\ (made[i].initial_weight = 0 /\ v = <<1, 2, 3>>)
                     => 4 * boxes[i].score_ = ScoreScale * 16
              /\ (made[i].initial_weight = 0 /\ v = <<1, 2, 3, 4>>)
                     => 4 * boxes[i].score_ = ScoreScale * 36

C2_Witness ==
    /\ pc = "box"
    /\ boxes[1].type_ = GREEN
    /\ made[1].initial_weight = 0
    /\ Values(1) = <<1, 2, 3, 4>>
    /\ boxes[1].score_ = 9 * ScoreScale

\* C3: the box that absorbs in a turn has, before the absorption, a weight
\* no greater than that of any other box, and no box earlier in the vector
\* has the same weight; every turn has one absorbing box.
C3_MinimumBoxFirstOnTies ==
    [][ /\ \A i \in DOMAIN boxes :
              Absorbing(i)
              => /\ \A j \in DOMAIN boxes :
                        boxes[i].weight_ <= boxes[j].weight_
                 /\ \A j \in 1..(i - 1) :
                        boxes[j].weight_ # boxes[i].weight_
        /\ Len(turns') > Len(turns)
              => \E i \in DOMAIN boxes :
                    /\ Absorbing(i)
                    /\ \A j \in DOMAIN boxes \ {i} : arrivals'[j] = arrivals[j]
      ]_vars

\* the first turn on boxes of weights 0.3, 0.1, 0.1, 0.2: the second box
\* absorbed, not the third
C3_Witness ==
    /\ pc = "turn"
    /\ Len(turns) = 1
    /\ made[1].initial_weight = 3
    /\ made[2].initial_weight = 1
    /\ made[3].initial_weight = 1
    /\ made[4].initial_weight = 2
    /\ arrivals[2] # <<>>
    /\ arrivals[3] = <<>>

\* C4: the k-th completed turn (k = 1, 2, ...) used the k-th input weight and
\* was taken by player A when k is odd and by player B when k is even; the
\* loop has consumed as many weights as there are completed turns and
\* absorptions, and all of them when play returns.
C4_TokensInOrderPlayersAlternate ==
    /\ Len(turns) = idx
    /\ idx <= Len(input_weights)
    /\ Sum([i \in 1..Len(arrivals) |-> Len(arrivals[i])]) = idx
    /\ \A k \in 1..Len(turns) :
          /\ turns[k].token = input_weights[k]
          /\ turns[k].player = (IF (k - 1) % 2 = 0 THEN "A" ELSE "B")
    /\ is_player_A_turn = (idx % 2 = 0)
    /\ pc = "done" => Len(turns) = Len(input_weights)

C4_Witness ==
    /\ pc = "done"
    /\ Len(input_weights) >= 4
    /\ Len(turns) = Len(input_weights)
    /\ turns[1].player = "A"
    /\ turns[2].player = "B"
    /\ turns[3].player = "A"
    /\ turns[4].player = "B"

\* C5: a box's weight is its initial weight plus the sum of the values it has
\* absorbed; no step lowers it, and only a step in which the box absorbs
\* changes it.
C5_WeightIsInitialPlusAbsorbed ==
    /\ [](\A i \in DOMAIN boxes :
             boxes[i].weight_
                = made[i].initial_weight + WeightScale * Sum(Values(i)))
    /\ [][\A i \in DOMAIN boxes :
             /\ boxes'[i].weight_ >= boxes[i].weight_
             /\ boxes'[i].weight_ # boxes[i].weight_ => Absorbing(i)]_vars

C5_Witness ==
    /\ pc = "box"
    /\ made[1].initial_weight = 3
    /\ boxes[1].type_ = BLUE
    /\ Values(1) = <<2, 0, 4>>
    /\ boxes[1].weight_ = 63

\* C6: no step changes what getBoxType returns for a box: the kind it has
\* right after the factory call is the kind it keeps.
C6_KindFixedAtCreation ==
    [][\A i \in DOMAIN boxes :
          getBoxType(boxes'[i]) = getBoxType(boxes[i])]_vars

\* C7: play never ends abnormally, and whenever a BLUE box absorbs a value
\* that is neither below the front nor above the back of its non-empty list,
\* the list holds at least 3 values.
C7_InsertionPointInsideList ==
    [][ /\ pc' # "aborted"
        /\ \A i \in DOMAIN boxes :
              ( /\ Absorbing(i)
                /\ boxes[i].type_ = BLUE
                /\ boxes[i].absorbed_weights_ # <<>>
                /\ Front(i) <= arrivals'[i][Len(arrivals'[i])].weight
                /\ arrivals'[i][Len(arrivals'[i])].weight <= Back(i) )
              => Len(boxes[i].absorbed_weights_) >= 3
      ]_vars

\* C8: play({1,1,2,3}) returns (13, 25) and play({1,1,2,3,5,8,13,21})
\* returns (155, 366.25).
C8_FibonacciResults ==
    /\ (pc = "done" /\ input_weights = Fib4)
          => /\ player_A = 13 * ScoreScale
             /\ player_B = 25 * ScoreScale
    /\ (pc = "done" /\ input_weights = Fib8)
          => /\ player_A = 155 * ScoreScale
             /\ 100 * player_B = 36625 * ScoreScale
    /\ input_weights \in {Fib4, Fib8} => pc # "aborted"

C8_Witness ==
    /\ pc = "done"
    /\ input_weights = Fib8
    /\ player_A = 155 * ScoreScale
    /\ Len(turns) = 8

AbsorbingAgain(i) ==
    /\ Absorbing(i)
    /\ arrivals[i] # <<>>
    /\ arrivals'[i][Len(arrivals'[i])].weight
          = arrivals[i][Len(arrivals[i])].weight

C11_PlayKindsFixed ==
    /\ [](pc # "setBoxType"
            => /\ boxes[1].type_ = GREEN /\ made[1].initial_weight = 0
               /\ boxes[2].type_ = GREEN /\ made[2].initial_weight = 1
               /\ boxes[3].type_ = BLUE /\ made[3].initial_weight = 2
               /\ boxes[4].type_ = BLUE /\ made[4].initial_weight = 3
               /\ \A i \in {1, 2} :
                     arrivals[i] # <<>>
                     => LET v == Values(i)
                            k == Len(v)
                            n == IF k < 3 THEN k ELSE 3
                            S == Sum(SubSeq(v, k - n + 1, k))
                        IN boxes[i].score_ * n * n = ScoreScale * S * S
               /\ \A i \in {3, 4} :
                     arrivals[i] # <<>>
                     => boxes[i].score_
                           = ScoreScale * Pairing(Front(i), Back(i)))
    /\ [][pc # "setBoxType"
            => \A i \in DOMAIN boxes : boxes'[i].type_ = boxes[i].type_]_vars

C11_Witness ==
    /\ pc = "done"
    /\ \A i \in 1..4 : arrivals[i] # <<>>
    /\ boxes[1].type_ = GREEN
    /\ boxes[2].type_ = GREEN
    /\ boxes[3].type_ = BLUE
    /\ boxes[4].type_ = BLUE

\* C12: play never stops anywhere but at its return, and it returns after
\* exactly as many turns and absorptions as there are input weights; no turn
\* is taken once the weights are used up.
C12_PlayReturnsAfterAllTurns ==
    /\ pc \in {"setBoxType", "loop", "done"}
    /\ idx <= Len(input_weights)
    /\ Len(turns) <= Len(input_weights)
    /\ pc = "done"
          => /\ Len(turns) = Len(input_weights)
             /\ Sum([i \in 1..Len(arrivals) |-> Len(arrivals[i])])
                   = Len(input_weights)

\* C13: a box that has absorbed nothing has score 0, a player that has taken
\* no turn has total 0, and play on no input weights returns (0, 0).
C13_ZeroBeforeAbsorption ==
    /\ \A i \in DOMAIN boxes : arrivals[i] = <<>> => getScore(boxes[i]) = 0
    /\ (\A k \in 1..Len(turns) : turns[k].player # "A") => player_A = 0
    /\ (\A k \in 1..Len(turns) : turns[k].player # "B") => player_B = 0
    /\ (pc = "done" /\ input_weights = <<>>) => player_A = 0 /\ player_B = 0

C13_Witness ==
    /\ pc = "done"
    /\ input_weights = <<>>
    /\ player_A = 0
    /\ player_B = 0
    /\ \A i \in 1..4 : getScore(boxes[i]) = 0
    /\ boxes[1].type_ = GREEN
    /\ boxes[4].type_ = BLUE

\* the scores player p was credited with on the completed turns
GainsOf(p) ==
    Sum([k \in 1..Len(turns) |->
            IF turns[k].player = p THEN turns[k].gain ELSE 0])

\* a turn completes in this step
TurnCompletes == Len(turns') = Len(turns) + 1

\* C14: no step lowers player A's or player B's total.
C14_TotalsNeverDecrease ==
    [][player_A' >= player_A /\ player_B' >= player_B]_vars

\* player A's third-turn score was lower than its first-turn score
C14_Witness ==
    /\ pc = "done"
    /\ Len(turns) >= 3
    /\ turns[3].gain < turns[1].gain
    /\ player_A >= turns[1].gain + turns[3].gain

\* C15: a turn raises the acting player's total by exactly the score the
\* absorbing box has after the absorption, so each total is the sum of those
\* scores over the player's own turns.
C15_TurnCreditsPostAbsorptionScore ==
    /\ [](player_A = GainsOf("A") /\ player_B = GainsOf("B"))
    /\ [][TurnCompletes
            => \E i \in DOMAIN boxes :
                  /\ Absorbing(i)
                  /\ turns'[Len(turns')].gain = boxes'[i].score_
                  /\ turns'[Len(turns')].player = "A"
                        => player_A' = player_A + boxes'[i].score_
                  /\ turns'[Len(turns')].player = "B"
                        => player_B' = player_B + boxes'[i].score_]_vars

C15_Witness ==
    /\ pc = "done"
    /\ Len(turns) = 4
    /\ player_A = turns[1].gain + turns[3].gain
    /\ player_B = turns[2].gain + turns[4].gain
    /\ turns[1].gain > 0
    /\ turns[3].gain > 0
    /\ turns[2].gain > 0
    /\ turns[4].gain > 0

\* C16: when a GREEN box absorbs, the list the mean is taken over is not
\* empty and the divisor, 3 or the list's size below 3, is at least 1.
C16_GreenDivisorPositive ==
    [][\A i \in DOMAIN boxes :
          (Absorbing(i) /\ boxes[i].type_ = GREEN)
          => /\ boxes'[i].absorbed_weights_ # <<>>
             /\ GreenDivisor(boxes'[i].absorbed_weights_) >= 1
             /\ GreenDivisor(boxes'[i].absorbed_weights_)
                   = (IF Len(arrivals'[i]) < 3 THEN Len(arrivals'[i]) ELSE 3)
      ]_vars

\* a GREEN box after its first absorption: the divisor was 1
C16_Witness ==
    /\ pc = "box"
    /\ boxes[1].type_ = GREEN
    /\ Len(arrivals[1]) = 1
    /\ GreenDivisor(boxes[1].absorbed_weights_) = 1

\* C17: a turn writes one box, the one that absorbs, and one player's total,
\* the acting player's: the other three boxes keep weight, score, list and
\* type, the absorbing box keeps its type, and the other player's total is
\* unchanged.
C17_TurnFrame ==
    [][TurnCompletes
         => /\ \E i \in DOMAIN boxes :
                  /\ Absorbing(i)
                  /\ boxes'[i].absorbed_weights_ # boxes[i].absorbed_weights_
                  /\ boxes'[i].type_ = boxes[i].type_
                  /\ \A j \in DOMAIN boxes \ {i} :
                        boxes'[j] = boxes[j] /\ arrivals'[j] = arrivals[j]
            /\ turns'[Len(turns')].player = "A" => player_B' = player_B
            /\ turns'[Len(turns')].player = "B" => player_A' = player_A
            /\ Len(boxes') = Len(boxes)]_vars

\* after two turns the two green boxes have absorbed and scored, the two
\* blue boxes are as constructed
C17_Witness ==
    /\ pc = "loop"
    /\ Len(turns) = 2
    /\ arrivals[1] # <<>>
    /\ arrivals[2] # <<>>
    /\ boxes[3] = setBoxType(makeBlueBox(2))
    /\ boxes[4] = setBoxType(makeBlueBox(3))
    /\ player_A > 0
    /\ player_B > 0

\* C18: in play no two boxes have the same weight.
C18_WeightsPairwiseDistinct ==
    \A i, j \in DOMAIN boxes :
        i # j => boxes[i].weight_ # boxes[j].weight_

\* after the input weights 1, 1, 1, 1 the weights are 1.0, 1.1, 1.2, 1.3
C18_Witness ==
    /\ pc = "done"
    /\ boxes[1].weight_ = 10
    /\ boxes[2].weight_ = 11
    /\ boxes[3].weight_ = 12
    /\ boxes[4].weight_ = 13

\* C19: when a box that was BLUE at all its absorptions absorbs a value
\* whose insertion is inside the list, the back of its list is afterwards
\* the maximum of all the values it has absorbed.
C19_BackIsMaximum ==
    [][\A i \in DOMAIN boxes :
          ( /\ Absorbing(i)
            /\ boxes[i].type_ = BLUE
            /\ AlwaysBlue(i)
            /\ ~AbsorbUndefined(boxes[i],
                                arrivals'[i][Len(arrivals'[i])].weight) )
          => boxes'[i].absorbed_weights_[Len(boxes'[i].absorbed_weights_)]
                = SeqMax([k \in 1..Len(arrivals'[i]) |->
                             arrivals'[i][k].weight])]_vars

====
